---- MODULE Spec2Model ----
(***************************************************************************)
(* State-machine model of the POS backend's bookkeeping endpoints:         *)
(*   - the products router (create / update / soft delete / stock          *)
(*     adjustment batches / needToOrder and billing patches) together      *)
(*     with the product change log it writes;                              *)
(*   - the invoice and billing-PDF routers (create and pay);               *)
(*   - the estimates, sales and orders routers.                            *)
(* Every action is one HTTP handler executed from request to response.     *)
(* The variable resp holds the last request together with its response.    *)
(* Handlers that make several database calls are also modelled call by     *)
(* call, so that requests interleave: reqs holds the requests in flight,   *)
(* each with its position in its handler.                                  *)
(***************************************************************************)
EXTENDS Integers, Sequences, FiniteSets, TLC

VARIABLES products, logs, invoices, billingPDFs, resp,
          reqs, estimates, inventory, sales, orders

vars == <<products, logs, invoices, billingPDFs, resp, reqs, estimates, inventory, sales, orders>>

\* The variables of the requests in flight and of the estimate, inventory,
\* sale and order tables.
others == <<reqs, estimates, inventory, sales, orders>>

(***************************************************************************)
(* Bounds of the model.                                                    *)
(***************************************************************************)
MaxProducts == 1
MaxLogs == 1
MaxItems == 2
MaxStock == 1
MaxQty == 1
MaxNeedToOrder == 1
MaxInvoices == 1
MaxBillingPDFs == 1
MaxCents == 2
SubCent == 4
MaxReqs == 2
MaxRows == 2

NULL == "null"

Skus == {"", "A"}
Stocks == (0 - 1)..MaxStock
Qtys == (0 - 1)..MaxQty

(***************************************************************************)
(* Request-body values.  A JSON field is absent, a number, or a value      *)
(* that Number() turns into NaN.                                           *)
(***************************************************************************)
Undef == [t |-> "undef", n |-> 0]
NaNVal == [t |-> "nan", n |-> 0]
InfVal == [t |-> "inf", n |-> 0]
Num(n) == [t |-> "num", n |-> n]

BodyStocks == {Undef, NaNVal} \cup {Num(n) : n \in Stocks}

\* products.ts toNumberSafe: undefined / null / "" and non-finite values
\* give the fallback.
toNumberSafe(v, fallback) == IF v.t = "num" THEN v.n ELSE fallback

RECURSIVE FilterNonEmpty(_)
FilterNonEmpty(s) ==
    IF s = <<>> THEN <<>>
    ELSE IF Head(s) = "" THEN FilterNonEmpty(Tail(s))
         ELSE <<Head(s)>> \o FilterNonEmpty(Tail(s))

\* products.ts normalizeVendors: a falsy value gives [], otherwise the
\* entries are trimmed and the empty ones dropped.
normalizeVendors(v) == FilterNonEmpty(v)

BodyVendors == {<<>>, <<"">>}

(***************************************************************************)
(* The Product table.  products maps the ids in use to rows.               *)
(***************************************************************************)
ProductIds == DOMAIN products

NextProductId == Cardinality(ProductIds) + 1

ProductKeys == {"id", "name", "sku", "style", "stock", "vendors", "images",
                "needToOrder", "billing", "deletedAt", "createdAt"}

\* Keys whose values are JavaScript objects: the arrays and the Date
\* instances (deletedAt is a Date unless it is null).
ObjectKeys == {"vendors", "images", "createdAt"}

IsObject(k, v) == IF k \in ObjectKeys THEN TRUE ELSE k = "deletedAt" /\ v # NULL

(***************************************************************************)
(* The last request and its response.  For a stock batch that stops at an  *)
(* item, pid is the product found for that item, seen the stock read for   *)
(* it, qty the item's quantity and before the stock of pid when the        *)
(* request arrived.  arg is the argument of the request: the amount of a   *)
(* pay request, the productIds of a stock lookup.                           *)
(***************************************************************************)
NoResp ==
    [op |-> "none", status |-> 0, pid |-> 0, logFailed |-> FALSE,
     body |-> [none |-> TRUE], seen |-> 0, qty |-> 0, before |-> 0,
     arg |-> Undef]

Response(op, status, body) == [NoResp EXCEPT !.op = op, !.status = status, !.body = body]

(***************************************************************************)
(* createLogHelper: one ProductChangeLog row, unless the write fails, in   *)
(* which case the error is caught and only printed.                        *)
(***************************************************************************)
LogEntry(productId, action, changes) ==
    [productId |-> productId, action |-> action, changes |-> changes]

\* Mutant of logProductChange: the row is written twice.
logProductChangeTwice(lg, productId, action, changes, fails) ==
    [logs |-> IF fails THEN lg
              ELSE lg \o <<LogEntry(productId, action, changes),
                           LogEntry(productId, action, changes)>>,
     threw |-> FALSE]

\* Mutant of logProductChange: the new row replaces the table.
logProductChangeOverwrite(lg, productId, action, changes, fails) ==
    [logs |-> IF fails THEN lg ELSE <<LogEntry(productId, action, changes)>>,
     threw |-> FALSE]

\* Mutant of logProductChange: no try/catch, a failed write rejects.
logProductChangeRethrow(lg, productId, action, changes, fails) ==
    [logs |-> IF fails THEN lg ELSE Append(lg, LogEntry(productId, action, changes)),
     threw |-> fails]

\* logs: the table afterwards; threw: whether the helper's promise rejects,
\* which would send the calling handler into its catch block.
logProductChange(lg, productId, action, changes, fails) ==
    [logs |-> IF fails THEN lg ELSE Append(lg, LogEntry(productId, action, changes)),
     threw |-> FALSE]

(***************************************************************************)
(* Requests in flight.  A slot of reqs is idle, or holds a request: kind   *)
(* names its handler, pc the database call it makes next ("done" once the  *)
(* response is sent, with its status), arg its body, k the item of the     *)
(* body the loop is at, pid and read the row found for that item and the   *)
(* value read from it, before the table the handler works on as it was     *)
(* when the request arrived.                                               *)
(***************************************************************************)
Reqs == 1..MaxReqs

Idle ==
    [kind |-> "none", pc |-> "idle", status |-> 0, arg |-> <<>>, k |-> 0,
     pid |-> 0, read |-> 0, before |-> <<>>]

Free(r) == reqs[r].pc \in {"idle", "done"}

Arrive(kind, pc, arg, before) ==
    [Idle EXCEPT !.kind = kind, !.pc = pc, !.arg = arg, !.k = 1, !.before = before]

Done(q, status) == [q EXCEPT !.pc = "done", !.status = status]

Init ==
    /\ products = <<>>
    /\ logs = <<>>
    /\ invoices = <<>>
    /\ billingPDFs = <<>>
    /\ resp = NoResp
    /\ reqs = [r \in Reqs |-> Idle]
    /\ estimates = [rows |-> <<>>, serial |-> 0]
    /\ inventory = <<>>
    /\ sales = [rows |-> <<>>, emitted |-> <<>>]
    /\ orders = [rows |-> <<>>, serial |-> 0]

(***************************************************************************)
(* POST /products                                                          *)
(***************************************************************************)
CreateProduct ==
    \E hasNameAndPrice \in BOOLEAN :
        IF ~hasNameAndPrice
        THEN /\ resp' = Response("create", 400, [error |-> <<"Name and price are required">>])
             /\ UNCHANGED <<others, products, logs, invoices, billingPDFs>>
        ELSE /\ Cardinality(ProductIds) < MaxProducts
             /\ Len(logs) < MaxLogs
             /\ \E sku \in Skus, stock \in BodyStocks, vendors \in BodyVendors,
                   logFails \in BOOLEAN :
                  LET id == NextProductId
                      product == [id |-> id, name |-> "n", sku |-> sku, style |-> "s",
                                  stock |-> toNumberSafe(stock, 0),
                                  vendors |-> normalizeVendors(vendors),
                                  images |-> <<>>, needToOrder |-> 0,
                                  billing |-> NULL, deletedAt |-> NULL,
                                  createdAt |-> id]
                      l == logProductChange(logs, id, "CREATE OR DUPLICATE", product, logFails)
                  IN /\ products' = Append(products, product)
                     /\ logs' = l.logs
                     /\ resp' = [(IF l.threw
                                  THEN Response("create", 500,
                                                [error |-> <<"Failed to create product">>])
                                  ELSE Response("create", 200, product))
                                   EXCEPT !.pid = id, !.logFailed = logFails]
             /\ UNCHANGED <<others, invoices, billingPDFs>>

(***************************************************************************)
(* PUT /products/:id                                                       *)
(***************************************************************************)
PathIds == {NaNVal} \cup {Num(i) : i \in 0..MaxProducts}

BodyNames == {<<>>, <<"n">>}
BodySkus == {<<>>} \cup {<<s>> : s \in Skus}

\* The row after prisma.product.update: the keys left in data overwrite
\* the stored values, every other column is kept.
UpdateData(old, name, sku, stock, vendors) ==
    [old EXCEPT
       !.name = IF name # <<>> THEN name[1] ELSE @,
       !.sku = IF sku # <<>> THEN sku[1] ELSE @,
       !.stock = IF stock # Undef THEN toNumberSafe(stock, 0) ELSE @,
       !.vendors = IF vendors # <<>> THEN normalizeVendors(vendors) ELSE @]

\* The comparison updatedProduct[key] !== oldProduct[key]: by value for
\* primitives, by reference for objects, and the two rows come from two
\* separate queries, so no two of their objects are the same object.
StrictNotEqual(k, a, b) ==
    IF IsObject(k, a) \/ IsObject(k, b) THEN TRUE ELSE a # b

ComputeChanges(oldProduct, updatedProduct) ==
    LET changed == {k \in ProductKeys : StrictNotEqual(k, updatedProduct[k], oldProduct[k])}
    IN [k \in changed |-> [old |-> oldProduct[k], new |-> updatedProduct[k]]]

UpdateProduct ==
    \E id \in PathIds :
        IF id.t = "nan"
        THEN /\ resp' = Response("update", 400, [error |-> <<"Invalid ID">>])
             /\ UNCHANGED <<others, products, logs, invoices, billingPDFs>>
        ELSE IF id.n \notin ProductIds
        THEN /\ resp' = Response("update", 404, [error |-> <<"Product not found">>])
             /\ UNCHANGED <<others, products, logs, invoices, billingPDFs>>
        ELSE /\ Len(logs) < MaxLogs
             /\ \E name \in BodyNames, sku \in BodySkus, stock \in BodyStocks,
                   vendors \in BodyVendors, logFails \in BOOLEAN :
                  LET oldProduct == products[id.n]
                      updatedProduct == UpdateData(oldProduct, name, sku, stock, vendors)
                      changes == ComputeChanges(oldProduct, updatedProduct)
                      l == logProductChange(logs, id.n, "UPDATE", changes, logFails)
                  IN /\ products' = [products EXCEPT ![id.n] = updatedProduct]
                     /\ logs' = l.logs
                     /\ resp' = [(IF l.threw
                                  THEN Response("update", 500,
                                                [error |-> <<"Failed to update product">>])
                                  ELSE Response("update", 200, updatedProduct))
                                   EXCEPT !.pid = id.n, !.logFailed = logFails]
             /\ UNCHANGED <<others, invoices, billingPDFs>>

(***************************************************************************)
(* DELETE /products/:id (soft delete)                                      *)
(***************************************************************************)
DeleteProduct ==
    \E id \in PathIds :
        IF id.t = "nan"
        THEN /\ resp' = Response("delete", 400, [error |-> <<"Invalid ID">>])
             /\ UNCHANGED <<others, products, logs, invoices, billingPDFs>>
        ELSE IF id.n \notin ProductIds
        THEN /\ resp' = Response("delete", 404, [error |-> <<"Product not found">>])
             /\ UNCHANGED <<others, products, logs, invoices, billingPDFs>>
        ELSE /\ Len(logs) < MaxLogs
             /\ \E logFails \in BOOLEAN :
                  LET l == logProductChange(logs, id.n, "DELETE", <<>>, logFails)
                  IN /\ products' = [products EXCEPT ![id.n].deletedAt = "date"]
                     /\ logs' = l.logs
                     /\ resp' = [(IF l.threw
                                  THEN Response("delete", 500,
                                                [error |-> <<"Failed to delete product">>])
                                  ELSE Response("delete", 200,
                                                [message |-> <<"Product marked as deleted">>]))
                                   EXCEPT !.pid = id.n, !.logFailed = logFails]
             /\ UNCHANGED <<others, invoices, billingPDFs>>

(***************************************************************************)
(* Stock batches.  An item names a product by sku and carries a quantity;  *)
(* a body without a non-empty items array is the batch <<>>.               *)
(***************************************************************************)
Items == [sku : Skus, qty : Qtys]

RECURSIVE SeqsUpTo(_, _)
SeqsUpTo(S, n) ==
    IF n = 0 THEN {<<>>}
    ELSE LET shorter == SeqsUpTo(S, n - 1)
         IN shorter \cup {Append(q, x) : q \in shorter, x \in S}

Batches == SeqsUpTo(Items, MaxItems)

\* prisma.product.findFirst({ where: { sku } }): any one of the matching
\* rows, the query gives no order.
FindFirstBySku(ps, sku) == {id \in DOMAIN ps : ps[id].sku = sku}

Outcome(ps, status, body, pid, seen, qty) ==
    [products |-> ps, status |-> status, body |-> body, pid |-> pid,
     seen |-> seen, qty |-> qty]

StocksInRange(ps) == \A id \in DOMAIN ps : ps[id].stock \in Stocks

\* Mutant of InsufficientStock: no shortage test.
InsufficientStockUnchecked(stock, qty) == FALSE

\* Mutant of InsufficientStock: a quantity equal to the stock is refused.
InsufficientStockOffByOne(stock, qty) == stock <= qty

\* The shortage test of PATCH /decrement-stock.
InsufficientStock(stock, qty) == stock < qty

\* Mutant of InsufficientIdent: the name even when there is a sku.
InsufficientIdentNameOnly(product) == product.name

\* The product named in the shortage message: product.sku || product.name.
InsufficientIdent(product) == IF product.sku # "" THEN product.sku ELSE product.name

\* The loop of PATCH /decrement-stock from item k on.
RECURSIVE DecrementRun(_, _, _)
DecrementRun(ps, items, k) ==
    IF k > Len(items)
    THEN {Outcome(ps, 200, [message |-> <<"Stock decremented successfully">>], 0, 0, 0)}
    ELSE LET sku == items[k].sku
             qty == items[k].qty
             found == FindFirstBySku(ps, sku)
         IN IF found = {}
            THEN {Outcome(ps, 404, [error |-> <<"Product with SKU not found", sku>>], 0, 0, qty)}
            ELSE UNION {
                   IF InsufficientStock(ps[id].stock, qty)
                   THEN {Outcome(ps, 400,
                                 [error |-> <<"Insufficient stock for",
                                              InsufficientIdent(ps[id])>>],
                                 id, ps[id].stock, qty)}
                   ELSE DecrementRun([ps EXCEPT ![id].stock = ps[id].stock - qty],
                                     items, k + 1)
                   : id \in found}

StockBefore(pid) == IF pid \in ProductIds THEN products[pid].stock ELSE 0

BatchResponse(op, o) ==
    [Response(op, o.status, o.body) EXCEPT
       !.pid = o.pid, !.seen = o.seen, !.qty = o.qty, !.before = StockBefore(o.pid)]

DecrementStock ==
    \E items \in Batches :
        IF items = <<>>
        THEN /\ resp' = Response("decrement", 400, [error |-> <<"No items provided">>])
             /\ UNCHANGED <<others, products, logs, invoices, billingPDFs>>
        ELSE /\ \E o \in DecrementRun(products, items, 1) :
                  /\ StocksInRange(o.products)
                  /\ products' = o.products
                  /\ resp' = BatchResponse("decrement", o)
             /\ UNCHANGED <<others, logs, invoices, billingPDFs>>

\* The loop of PATCH /increment-stock from item k on.
RECURSIVE IncrementRun(_, _, _)
IncrementRun(ps, items, k) ==
    IF k > Len(items)
    THEN {Outcome(ps, 200, [message |-> <<"Stock incremented successfully">>], 0, 0, 0)}
    ELSE LET sku == items[k].sku
             qty == items[k].qty
             found == FindFirstBySku(ps, sku)
         IN IF found = {}
            THEN {Outcome(ps, 404, [error |-> <<"Product with SKU not found", sku>>], 0, 0, qty)}
            ELSE UNION {
                   IncrementRun([ps EXCEPT ![id].stock = ps[id].stock + qty], items, k + 1)
                   : id \in found}

IncrementStock ==
    \E items \in Batches :
        IF items = <<>>
        THEN /\ resp' = Response("increment", 400, [error |-> <<"No items provided">>])
             /\ UNCHANGED <<others, products, logs, invoices, billingPDFs>>
        ELSE /\ \E o \in IncrementRun(products, items, 1) :
                  /\ StocksInRange(o.products)
                  /\ products' = o.products
                  /\ resp' = BatchResponse("increment", o)
             /\ UNCHANGED <<others, logs, invoices, billingPDFs>>

(***************************************************************************)
(* PATCH /products/increment-stock-by-style-sku                            *)
(***************************************************************************)
Styles == {"", "s"}

StyleItems == [style : Styles, sku : Skus, qty : Qtys]

StyleBatches == SeqsUpTo(StyleItems, MaxItems)

FindFirstByStyleSku(ps, style, sku) ==
    {id \in DOMAIN ps : ps[id].style = style /\ ps[id].sku = sku}

RECURSIVE StyleSkuRun(_, _, _)
StyleSkuRun(ps, items, k) ==
    IF k > Len(items)
    THEN {Outcome(ps, 200, [message |-> <<"Stock updated by style + SKU">>], 0, 0, 0)}
    ELSE LET style == items[k].style
             sku == items[k].sku
             qty == items[k].qty
             found == FindFirstByStyleSku(ps, style, sku)
         IN IF style = "" \/ sku = ""
            THEN {Outcome(ps, 400, [error |-> <<"Missing style or sku in an item">>], 0, 0, qty)}
            ELSE IF found = {}
            THEN {Outcome(ps, 404, [error |-> <<"Product not found", style, sku>>], 0, 0, qty)}
            ELSE UNION {
                   StyleSkuRun([ps EXCEPT ![id].stock = ps[id].stock + qty], items, k + 1)
                   : id \in found}

IncrementStockByStyleSku ==
    \E items \in StyleBatches :
        IF items = <<>>
        THEN /\ resp' = Response("incrementByStyleSku", 400, [error |-> <<"No items provided">>])
             /\ UNCHANGED <<others, products, logs, invoices, billingPDFs>>
        ELSE /\ \E o \in StyleSkuRun(products, items, 1) :
                  /\ StocksInRange(o.products)
                  /\ products' = o.products
                  /\ resp' = BatchResponse("incrementByStyleSku", o)
             /\ UNCHANGED <<others, logs, invoices, billingPDFs>>

(***************************************************************************)
(* PATCH /products/needToOrder/:id and PATCH /products/billing/:id         *)
(***************************************************************************)
BodyNeedToOrder == {Undef} \cup {Num(n) : n \in (0 - 1)..MaxNeedToOrder}

PatchNeedToOrder ==
    \E id \in PathIds, needToOrder \in BodyNeedToOrder :
        IF id.t = "nan" \/ id.n = 0
        THEN /\ resp' = Response("needToOrder", 400, [error |-> <<"Invalid product ID">>])
             /\ UNCHANGED <<others, products, logs, invoices, billingPDFs>>
        ELSE IF needToOrder.t # "num" \/ needToOrder.n < 0
        THEN /\ resp' = Response("needToOrder", 400,
                                 [error |-> <<"needToOrder must be a positive integer">>])
             /\ UNCHANGED <<others, products, logs, invoices, billingPDFs>>
        ELSE IF id.n \notin ProductIds
        THEN /\ resp' = Response("needToOrder", 404, [error |-> <<"Product not found">>])
             /\ UNCHANGED <<others, products, logs, invoices, billingPDFs>>
        ELSE /\ products' = [products EXCEPT ![id.n].needToOrder = needToOrder.n]
             /\ resp' = [Response("needToOrder", 200,
                                  [success |-> TRUE,
                                   product |-> [id |-> id.n, name |-> products[id.n].name,
                                                needToOrder |-> needToOrder.n]])
                           EXCEPT !.pid = id.n]
             /\ UNCHANGED <<others, logs, invoices, billingPDFs>>

BodyBilling == {NULL, "true"}

PatchBilling ==
    \E id \in PathIds, billing \in BodyBilling :
        IF id.t = "nan"
        THEN /\ resp' = Response("billing", 400, [error |-> <<"Invalid ID">>])
             /\ UNCHANGED <<others, products, logs, invoices, billingPDFs>>
        ELSE IF id.n \notin ProductIds
        THEN /\ resp' = Response("billing", 500, [error |-> <<"Failed to update billing">>])
             /\ UNCHANGED <<others, products, logs, invoices, billingPDFs>>
        ELSE /\ products' = [products EXCEPT ![id.n].billing = billing]
             /\ resp' = [Response("billing", 200, [success |-> TRUE]) EXCEPT !.pid = id.n]
             /\ UNCHANGED <<others, logs, invoices, billingPDFs>>

(***************************************************************************)
(* GET /products?q=, GET /products/needToOrder and POST /products/stock.   *)
(* The body of the answer is the set of the rows found (the order of the   *)
(* rows in the answer is left out).                                        *)
(***************************************************************************)
Queries == {"", "A", "n"}

\* The OR filter of GET /products on strings of one character, where
\* "contains" is equality up to case: name, sku, or one of the vendors.
Matches(product, q) ==
    \/ q = ""
    \/ product.name = q
    \/ product.sku = q
    \/ \E i \in DOMAIN product.vendors : product.vendors[i] = q

\* Mutant of NotDeleted: the listing does not filter on deletedAt.
NotDeletedOff(product) == TRUE

\* where: { deletedAt: null }
NotDeleted(product) == product.deletedAt = NULL

ListProducts ==
    \E q \in Queries :
        /\ resp' = Response("list", 200,
                             {products[id] : id \in
                                {i \in ProductIds :
                                   Matches(products[i], q) /\ NotDeleted(products[i])}})
        /\ UNCHANGED <<others, products, logs, invoices, billingPDFs>>

ListNeedToOrder ==
    /\ resp' = Response("listNeedToOrder", 200,
                         {[id |-> products[id].id, name |-> products[id].name,
                           style |-> products[id].style, sku |-> products[id].sku,
                           stock |-> products[id].stock, vendors |-> products[id].vendors,
                           images |-> products[id].images,
                           needToOrder |-> products[id].needToOrder] : id \in
                            {i \in ProductIds :
                               products[i].needToOrder > 0 /\ NotDeleted(products[i])}})
    /\ UNCHANGED <<others, products, logs, invoices, billingPDFs>>

\* req.body.productIds: not an array, or an array of ids.
BodyProductIds ==
    {[isArray |-> FALSE, ids |-> {}]}
      \cup {[isArray |-> TRUE, ids |-> ids] : ids \in SUBSET (1..(MaxProducts + 1))}

ProductStock ==
    \E productIds \in BodyProductIds :
        /\ resp' = IF ~productIds.isArray
                   THEN Response("stock", 400, [error |-> <<"Invalid productIds">>])
                   ELSE [Response("stock", 200,
                                  {[id |-> products[id].id, name |-> products[id].name,
                                    stock |-> products[id].stock] : id \in
                                     {i \in ProductIds : i \in productIds.ids}})
                           EXCEPT !.arg = productIds]
        /\ UNCHANGED <<others, products, logs, invoices, billingPDFs>>

\* take: 100
LogsPage == 100

Reverse(s) == [i \in 1..Len(s) |-> s[Len(s) + 1 - i]]

\* GET /product-change-logs: the newest LogsPage rows, newest first, each
\* with its createdAt copied into timestamp (the model's rows carry no
\* time: their place in the table is the order of their creation).
ListLogs ==
    /\ resp' = Response("listLogs", 200,
                         SubSeq(Reverse(logs), 1,
                                IF Len(logs) < LogsPage THEN Len(logs) ELSE LogsPage))
    /\ UNCHANGED <<others, products, logs, invoices, billingPDFs>>

(***************************************************************************)
(* Money.  Amounts are counted in fractions of a cent, SubCent of them to  *)
(* the cent, so that a request can carry more than two decimals.  The      *)
(* columns Invoice.total, Invoice.paidAmount, billing_pdfs.cost and        *)
(* billing_pdfs.amountPaid are DECIMAL(10,2): a value written to them is   *)
(* rounded to whole cents, halves away from zero.                          *)
(***************************************************************************)
Abs(x) == IF x < 0 THEN 0 - x ELSE x

RoundCents(x) ==
    LET r == ((2 * Abs(x) + SubCent) \div (2 * SubCent)) * SubCent
    IN IF x < 0 THEN 0 - r ELSE r

Min(a, b) == IF a < b THEN a ELSE b

InvoiceNos == {"INV-1", "INV-2"}

BodyTotals == {Undef} \cup {Num(n) : n \in (0 - SubCent)..(MaxCents * SubCent)}
BodyAmounts == {NaNVal, InfVal} \cup {Num(n) : n \in (0 - 1)..(MaxCents * SubCent)}

\* Stands for the double Infinity: a number above every total and every sum
\* of a paid amount and a finite amount of the model, so that the
\* comparisons and the minimum of the pay handlers treat it as they treat
\* Infinity.
Infinity == 2 * MaxCents * SubCent + 1

\* parseFloat(amount) / Number(amount) on a body value that passed the test.
AmountValue(amount) == IF amount.t = "inf" THEN Infinity ELSE amount.n

\* The test isNaN(paymentAmount) || paymentAmount <= 0 of both pay handlers.
InvalidAmount(amount) ==
    amount.t = "nan" \/ (amount.t = "num" /\ amount.n <= 0)

RecordIds(table) == {NaNVal} \cup {Num(i) : i \in 1..(Len(table) + 1)}

(***************************************************************************)
(* POST /invoices                                                          *)
(***************************************************************************)
CreateInvoice ==
    \E hasNoAndPdf \in BOOLEAN :
        IF ~hasNoAndPdf
        THEN /\ resp' = Response("createInvoice", 400, [error |-> <<"Missing invoiceNo or PDF">>])
             /\ UNCHANGED <<others, products, logs, invoices, billingPDFs>>
        ELSE \E invoiceNo \in InvoiceNos, total \in BodyTotals :
               IF \E i \in DOMAIN invoices : invoices[i].invoiceNo = invoiceNo
               THEN /\ resp' = Response("createInvoice", 409,
                                        [error |-> <<"Invoice already exists for this estimate">>])
                    /\ UNCHANGED <<others, products, logs, invoices, billingPDFs>>
               ELSE IF total.t # "num"
               THEN /\ resp' = Response("createInvoice", 500, [error |-> <<"Failed to save PDF">>])
                    /\ UNCHANGED <<others, products, logs, invoices, billingPDFs>>
               ELSE /\ Len(invoices) < MaxInvoices
                    /\ LET saved == [id |-> Len(invoices) + 1, invoiceNo |-> invoiceNo,
                                     total |-> RoundCents(total.n), paidAmount |-> 0,
                                     status |-> "PENDING"]
                       IN /\ invoices' = Append(invoices, saved)
                          /\ resp' = [Response("createInvoice", 200, saved) EXCEPT
                                        !.pid = saved.id]
                    /\ UNCHANGED <<others, products, logs, billingPDFs>>

(***************************************************************************)
(* PUT /invoices/:id.  The status column is TEXT: the row takes whatever   *)
(* non-empty status the body carries; an id without a row makes the        *)
(* update throw.                                                           *)
(***************************************************************************)
BodyStatuses == {NULL, "PENDING", "PAID"}

UpdateInvoice ==
    \E id \in RecordIds(invoices), status \in BodyStatuses :
        IF id.t # "num" \/ id.n \notin DOMAIN invoices
        THEN /\ resp' = Response("updateInvoice", 500, [error |-> <<"Failed to update invoice">>])
             /\ UNCHANGED <<others, products, logs, invoices, billingPDFs>>
        ELSE LET updated == [invoices[id.n] EXCEPT
                               !.status = IF status # NULL THEN status ELSE @]
             IN /\ invoices' = [invoices EXCEPT ![id.n] = updated]
                /\ resp' = [Response("updateInvoice", 200, updated) EXCEPT !.pid = id.n]
                /\ UNCHANGED <<others, products, logs, billingPDFs>>

(***************************************************************************)
(* POST /invoices/:id/pay.  In resp, pid is the invoice, before the paid   *)
(* amount read from it and qty the amount of the request.                  *)
(***************************************************************************)
\* Mutant of InvoicePaidAmount: the sum is stored as it is.
InvoicePaidAmountUnclamped(newPaid, total) == newPaid

InvoicePaidAmount(newPaid, total) == IF newPaid > total THEN total ELSE newPaid

InvoiceStatus(newPaid, total) ==
    IF newPaid >= total THEN "PAID"
    ELSE IF newPaid > 0 THEN "PARTIALLY_PAID" ELSE "PENDING"

PayInvoice ==
    \E id \in RecordIds(invoices), amount \in BodyAmounts :
        IF InvalidAmount(amount)
        THEN /\ resp' = [Response("payInvoice", 400, [error |-> <<"Invalid amount">>])
                           EXCEPT !.arg = amount]
             /\ UNCHANGED <<others, products, logs, invoices, billingPDFs>>
        ELSE IF id.t # "num" \/ id.n \notin DOMAIN invoices
        THEN /\ resp' = [Response("payInvoice", 404, [error |-> <<"Invoice not found">>])
                           EXCEPT !.arg = amount]
             /\ UNCHANGED <<others, products, logs, invoices, billingPDFs>>
        ELSE LET invoice == invoices[id.n]
                 newPaid == invoice.paidAmount + AmountValue(amount)
                 total == invoice.total
             IN /\ invoices' = [invoices EXCEPT
                                  ![id.n].paidAmount = RoundCents(InvoicePaidAmount(newPaid, total)),
                                  ![id.n].status = InvoiceStatus(newPaid, total)]
                /\ resp' = [Response("payInvoice", 200, [success |-> TRUE]) EXCEPT
                              !.pid = id.n, !.before = invoice.paidAmount,
                              !.qty = AmountValue(amount), !.arg = amount]
                /\ UNCHANGED <<others, products, logs, billingPDFs>>

(***************************************************************************)
(* POST /billing/save-pdf                                                  *)
(***************************************************************************)
SaveBillingPDF ==
    \E hasFields \in BOOLEAN :
        IF ~hasFields
        THEN /\ resp' = Response("saveBillingPDF", 400, [error |-> <<"Missing required fields">>])
             /\ UNCHANGED <<others, products, logs, invoices, billingPDFs>>
        ELSE \E invoiceNo \in InvoiceNos, cost \in BodyTotals :
               IF cost.t # "num"
               THEN /\ resp' = Response("saveBillingPDF", 500, [error |-> <<"Failed to save PDF">>])
                    /\ UNCHANGED <<others, products, logs, invoices, billingPDFs>>
               ELSE IF \E i \in DOMAIN billingPDFs : billingPDFs[i].invoiceNo = invoiceNo
               THEN /\ resp' = Response("saveBillingPDF", 400,
                                        [error |-> <<"Invoice number already exists">>])
                    /\ UNCHANGED <<others, products, logs, invoices, billingPDFs>>
               ELSE /\ Len(billingPDFs) < MaxBillingPDFs
                    /\ LET savedPdf == [id |-> Len(billingPDFs) + 1, invoiceNo |-> invoiceNo,
                                        cost |-> RoundCents(cost.n), amountPaid |-> 0,
                                        paidAt |-> NULL]
                       IN /\ billingPDFs' = Append(billingPDFs, savedPdf)
                          /\ resp' = [Response("saveBillingPDF", 200,
                                               [success |-> TRUE, id |-> savedPdf.id,
                                                invoiceNo |-> invoiceNo])
                                        EXCEPT !.pid = savedPdf.id]
                    /\ UNCHANGED <<others, products, logs, invoices>>

(***************************************************************************)
(* POST /billing/:id/pay.  In resp, pid is the billing PDF, before the     *)
(* paid amount read from it and qty the amount of the request.             *)
(***************************************************************************)
\* Mutant of BillingNewPaidAmount: the sum is not clamped to the cost.
BillingNewPaidAmountNoClamp(currentPaid, paymentAmount, totalCost) ==
    currentPaid + paymentAmount

BillingNewPaidAmount(currentPaid, paymentAmount, totalCost) ==
    Min(currentPaid + paymentAmount, totalCost)

PayBilling ==
    \E id \in RecordIds(billingPDFs), amount \in BodyAmounts :
        IF InvalidAmount(amount)
        THEN /\ resp' = [Response("payBilling", 400, [error |-> <<"Invalid payment amount">>])
                           EXCEPT !.arg = amount]
             /\ UNCHANGED <<others, products, logs, invoices, billingPDFs>>
        ELSE IF id.t # "num" \/ id.n \notin DOMAIN billingPDFs
        THEN /\ resp' = [Response("payBilling", 404, [error |-> <<"Invoice not found">>])
                           EXCEPT !.arg = amount]
             /\ UNCHANGED <<others, products, logs, invoices, billingPDFs>>
        ELSE LET invoice == billingPDFs[id.n]
                 currentPaid == invoice.amountPaid
                 totalCost == invoice.cost
                 newPaidAmount == BillingNewPaidAmount(currentPaid, AmountValue(amount),
                                                       totalCost)
                 isFullyPaid == newPaidAmount >= totalCost
             IN /\ billingPDFs' = [billingPDFs EXCEPT
                                     ![id.n].amountPaid = RoundCents(newPaidAmount),
                                     ![id.n].paidAt = IF isFullyPaid THEN "date" ELSE NULL]
                /\ resp' = [Response("payBilling", 200,
                                     [success |-> TRUE,
                                      message |-> IF isFullyPaid THEN <<"Paid in full!">>
                                                  ELSE <<"Payment recorded">>,
                                      remaining |-> totalCost - newPaidAmount])
                              EXCEPT !.pid = id.n, !.before = currentPaid,
                                     !.qty = AmountValue(amount), !.arg = amount]
                /\ UNCHANGED <<others, products, logs, invoices>>

(***************************************************************************)
(* PATCH /products/decrement-stock and PATCH /products/increment-stock,    *)
(* database call by database call.  r is the slot of the request and       *)
(* batches the bodies it may carry.                                        *)
(***************************************************************************)
\* The request arrives; a body without a non-empty items array is answered
\* 400 before any query.
StockArrive(r, kind, batches) ==
    /\ Free(r)
    /\ \E items \in batches :
         reqs' = [reqs EXCEPT ![r] =
                    IF items = <<>>
                    THEN Done(Arrive(kind, "findFirst", items, products), 400)
                    ELSE Arrive(kind, "findFirst", items, products)]
    /\ UNCHANGED <<products, logs, invoices, billingPDFs, resp, estimates, inventory, sales, orders>>

DecrementArrive(r, batches) == StockArrive(r, "decrement", batches)

IncrementArrive(r, batches) == StockArrive(r, "increment", batches)

\* Mutant of ReturnEarly: the batch is a transaction, rolled back when an
\* item fails.
ReturnEarlyRolledBack(current, before) == before

\* The Product table after the return of a failing item: the handler answers
\* and makes no further write; the updates of the earlier items were each
\* committed by their own call.
ReturnEarly(current, before) == current

\* decrement-stock, item k: findFirst by sku, then the shortage test on the
\* row found.
DecrementFindFirst(r) ==
    LET q == reqs[r]
        item == q.arg[q.k]
        found == FindFirstBySku(products, item.sku)
    IN /\ q.kind = "decrement"
       /\ q.pc = "findFirst"
       /\ IF found = {}
          THEN /\ reqs' = [reqs EXCEPT ![r] = Done(q, 404)]
               /\ products' = ReturnEarly(products, q.before)
          ELSE \E id \in found :
                 LET seen == [q EXCEPT !.pid = id, !.read = products[id].stock]
                 IN IF InsufficientStock(products[id].stock, item.qty)
                    THEN /\ reqs' = [reqs EXCEPT ![r] = Done(seen, 400)]
                         /\ products' = ReturnEarly(products, q.before)
                    ELSE /\ reqs' = [reqs EXCEPT ![r] = [seen EXCEPT !.pc = "update"]]
                         /\ products' = products
       /\ UNCHANGED <<logs, invoices, billingPDFs, resp, estimates, inventory, sales, orders>>

\* Mutant of DecrementData: the store's atomic decrement of the current
\* value.
DecrementDataAtomic(read, current, qty) == current - qty

\* The stock written by decrement-stock, data: { stock: product.stock - qty }
\* where product is the row read by findFirst.
DecrementData(read, current, qty) == read - qty

\* The request after the update of item k: the next item, or the success
\* response after the last one.
NextItem(q) ==
    IF q.k = Len(q.arg)
    THEN Done([q EXCEPT !.k = q.k + 1], 200)
    ELSE [q EXCEPT !.pc = "findFirst", !.k = q.k + 1]

\* decrement-stock, item k: update of the row by id.
DecrementUpdate(r) ==
    LET q == reqs[r]
        stock == DecrementData(q.read, products[q.pid].stock, q.arg[q.k].qty)
    IN /\ q.kind = "decrement"
       /\ q.pc = "update"
       /\ stock \in Stocks
       /\ products' = [products EXCEPT ![q.pid].stock = stock]
       /\ reqs' = [reqs EXCEPT ![r] = NextItem(q)]
       /\ UNCHANGED <<logs, invoices, billingPDFs, resp, estimates, inventory, sales, orders>>

\* increment-stock, item k: findFirst by sku.
IncrementFindFirst(r) ==
    LET q == reqs[r]
        item == q.arg[q.k]
        found == FindFirstBySku(products, item.sku)
    IN /\ q.kind = "increment"
       /\ q.pc = "findFirst"
       /\ IF found = {}
          THEN /\ reqs' = [reqs EXCEPT ![r] = Done(q, 404)]
               /\ products' = ReturnEarly(products, q.before)
          ELSE /\ \E id \in found :
                    reqs' = [reqs EXCEPT ![r] =
                               [q EXCEPT !.pc = "update", !.pid = id,
                                         !.read = products[id].stock]]
               /\ products' = products
       /\ UNCHANGED <<logs, invoices, billingPDFs, resp, estimates, inventory, sales, orders>>

\* increment-stock, item k: update of the row by id with
\* data: { stock: product.stock + qty }.
IncrementUpdate(r) ==
    LET q == reqs[r]
        stock == q.read + q.arg[q.k].qty
    IN /\ q.kind = "increment"
       /\ q.pc = "update"
       /\ stock \in Stocks
       /\ products' = [products EXCEPT ![q.pid].stock = stock]
       /\ reqs' = [reqs EXCEPT ![r] = NextItem(q)]
       /\ UNCHANGED <<logs, invoices, billingPDFs, resp, estimates, inventory, sales, orders>>

(***************************************************************************)
(* Creation of invoices, billing PDFs and estimates, database call by      *)
(* database call.  Each of the three tables has a unique index on its      *)
(* number column: an insert of a number already stored is refused by the   *)
(* database and the create call throws P2002.                              *)
(***************************************************************************)
\* Mutant of UniqueViolation: the table has no unique index.
UniqueViolationOff(numbers, no) == FALSE

\* numbers: the numbers stored in the table; no: the number of the insert.
UniqueViolation(numbers, no) == no \in numbers

InvoiceNumbers == {invoices[i].invoiceNo : i \in DOMAIN invoices}

BillingNumbers == {billingPDFs[i].invoiceNo : i \in DOMAIN billingPDFs}

EstimateNumbers == {estimates.rows[i].estimateNo : i \in DOMAIN estimates.rows}

\* POST /invoices: the body is read and validated; one without invoiceNo
\* or pdf is answered 400.
InvoiceArrive(r, totals) ==
    /\ Free(r)
    /\ \/ reqs' = [reqs EXCEPT ![r] =
                       Done(Arrive("createInvoice", "findUnique",
                                   [no |-> "", total |-> Undef], <<>>), 400)]
       \/ \E invoiceNo \in InvoiceNos, total \in totals :
            reqs' = [reqs EXCEPT ![r] =
                       Arrive("createInvoice", "findUnique",
                              [no |-> invoiceNo, total |-> total], <<>>)]
    /\ UNCHANGED <<products, logs, invoices, billingPDFs, resp, estimates, inventory, sales, orders>>

\* POST /invoices: findUnique({ where: { invoiceNo } }).
InvoiceFindUnique(r) ==
    LET q == reqs[r]
    IN /\ q.kind = "createInvoice"
       /\ q.pc = "findUnique"
       /\ reqs' = [reqs EXCEPT ![r] = IF q.arg.no \in InvoiceNumbers
                                      THEN Done(q, 409)
                                      ELSE [q EXCEPT !.pc = "create"]]
       /\ UNCHANGED <<products, logs, invoices, billingPDFs, resp, estimates, inventory, sales, orders>>

\* POST /invoices: prisma.invoice.create; whatever it throws is answered
\* 500 by the catch block.
InvoiceCreate(r) ==
    LET q == reqs[r]
    IN /\ q.kind = "createInvoice"
       /\ q.pc = "create"
       /\ IF q.arg.total.t # "num" \/ UniqueViolation(InvoiceNumbers, q.arg.no)
          THEN /\ reqs' = [reqs EXCEPT ![r] = Done(q, 500)]
               /\ invoices' = invoices
          ELSE /\ Len(invoices) < MaxRows
               /\ invoices' = Append(invoices,
                                     [id |-> Len(invoices) + 1, invoiceNo |-> q.arg.no,
                                      total |-> RoundCents(q.arg.total.n),
                                      paidAmount |-> 0, status |-> "PENDING"])
               /\ reqs' = [reqs EXCEPT ![r] = Done([q EXCEPT !.pid = Len(invoices) + 1], 200)]
       /\ UNCHANGED <<products, logs, billingPDFs, resp, estimates, inventory, sales, orders>>

\* POST /billing/save-pdf: the validation (a body with an empty invoiceNo
\* stands for the bodies answered "Missing required fields") and its one
\* database call, prisma.billingPDF.create; P2002 is answered 400, any other
\* error 500.
BillingSave(r, costs) ==
    /\ Free(r)
    /\ \E invoiceNo \in InvoiceNos \cup {""}, cost \in costs :
         LET q == Arrive("saveBillingPDF", "create",
                         [no |-> invoiceNo, total |-> cost], <<>>)
         IN IF invoiceNo = "" \/ cost.t # "num" \/ UniqueViolation(BillingNumbers, invoiceNo)
            THEN /\ reqs' = [reqs EXCEPT ![r] =
                               Done(q, IF invoiceNo # "" /\ cost.t # "num" THEN 500 ELSE 400)]
                 /\ billingPDFs' = billingPDFs
            ELSE /\ Len(billingPDFs) < MaxRows
                 /\ billingPDFs' = Append(billingPDFs,
                                          [id |-> Len(billingPDFs) + 1,
                                           invoiceNo |-> invoiceNo,
                                           cost |-> RoundCents(cost.n), amountPaid |-> 0,
                                           paidAt |-> NULL])
                 /\ reqs' = [reqs EXCEPT ![r] =
                               Done([q EXCEPT !.pid = Len(billingPDFs) + 1], 200)]
    /\ UNCHANGED <<products, logs, invoices, resp, estimates, inventory, sales, orders>>

(***************************************************************************)
(* The estimates router.  estimates.rows is the Estimate table in id       *)
(* order and estimates.serial the last id the table's SERIAL gave out.  An *)
(* estimate number is a prefix and the digits after it.  POST /save exists *)
(* in two files that differ in the answer to a failed insert; file says    *)
(* which one serves the request.  The bodies carry the other fields        *)
(* (date, pdfData, amounts) well-formed.                                   *)
(***************************************************************************)
FirstEstimateNumber == 1001

EstNo(n) == [prefix |-> "EST-", n |-> n]

\* No estimateNo in the body, or a blank one.
NoEstimateNo == [prefix |-> "", n |-> 0]

BodyEstimateNos ==
    {NoEstimateNo, EstNo(FirstEstimateNumber), EstNo(FirstEstimateNumber + 1),
     [prefix |-> "Q-", n |-> 1]}

Files == {"estimates.ts", "part_006"}

\* The number POST /save generates from the estimate with the highest id.
NextEstimateNo(rows) ==
    IF rows # <<>> /\ rows[Len(rows)].estimateNo.prefix = "EST-"
    THEN EstNo(rows[Len(rows)].estimateNo.n + 1)
    ELSE EstNo(FirstEstimateNumber)

EstimateArrive(r) ==
    /\ Free(r)
    /\ \E provided \in BodyEstimateNos, file \in Files :
         reqs' = [reqs EXCEPT ![r] =
                    Arrive("saveEstimate", "findFirst",
                           [no |-> provided, file |-> file], <<>>)]
    /\ UNCHANGED <<products, logs, invoices, billingPDFs, resp, estimates, inventory, sales, orders>>

\* POST /save: findFirst({ orderBy: { id: "desc" } }) and the choice of the
\* number, kept in read.
EstimateFindFirst(r) ==
    LET q == reqs[r]
    IN /\ q.kind = "saveEstimate"
       /\ q.pc = "findFirst"
       /\ reqs' = [reqs EXCEPT ![r] =
                     [q EXCEPT !.pc = "create",
                               !.read = IF q.arg.no = NoEstimateNo
                                        THEN NextEstimateNo(estimates.rows)
                                        ELSE q.arg.no]]
       /\ UNCHANGED <<products, logs, invoices, billingPDFs, resp, estimates, inventory, sales, orders>>

\* POST /save: prisma.estimate.create.  On P2002 estimates.ts answers 400,
\* part_006 answers 500 as for every error.
EstimateCreate(r) ==
    LET q == reqs[r]
        id == estimates.serial + 1
    IN /\ q.kind = "saveEstimate"
       /\ q.pc = "create"
       /\ IF UniqueViolation(EstimateNumbers, q.read)
          THEN /\ reqs' = [reqs EXCEPT ![r] =
                             Done(q, IF q.arg.file = "estimates.ts" THEN 400 ELSE 500)]
               /\ estimates' = estimates
          ELSE /\ Len(estimates.rows) < MaxRows
               /\ estimates.serial <= MaxRows
               /\ estimates' = [rows |-> Append(estimates.rows,
                                                [id |-> id, estimateNo |-> q.read,
                                                 approved |-> FALSE, invoiced |-> FALSE]),
                                serial |-> id]
               /\ reqs' = [reqs EXCEPT ![r] = Done([q EXCEPT !.pid = id], 200)]
       /\ UNCHANGED <<products, logs, invoices, billingPDFs, resp, inventory, sales, orders>>

RECURSIVE WithoutId(_, _)
WithoutId(rows, id) ==
    IF rows = <<>> THEN <<>>
    ELSE IF Head(rows).id = id THEN Tail(rows)
         ELSE <<Head(rows)>> \o WithoutId(Tail(rows), id)

\* DELETE /estimates/:id (part_006): prisma.estimate.delete, answered 200.
\* With no row of that id the call throws outside any try block and no
\* answer is sent (status 0).
EstimateDelete(r) ==
    /\ Free(r)
    /\ \E id \in 1..(MaxRows + 1) :
         LET q == Arrive("deleteEstimate", "delete", [id |-> id], <<>>)
             found == \E i \in DOMAIN estimates.rows : estimates.rows[i].id = id
         IN /\ reqs' = [reqs EXCEPT ![r] = Done(q, IF found THEN 200 ELSE 0)]
            /\ estimates' = [estimates EXCEPT !.rows = WithoutId(@, id)]
    /\ UNCHANGED <<products, logs, invoices, billingPDFs, resp, inventory, sales, orders>>

(***************************************************************************)
(* POST /sales, database call by database call.  sales.rows is the Sale    *)
(* table with the items of each sale and sales.emitted the sale:created    *)
(* events sent, inventory maps a product id to the quantity of its         *)
(* Inventory row (the table has a unique index on productId).  Prices,     *)
(* totals and the payment record are left out; the bodies carry an items   *)
(* array and a payment.  Each slot of reqs carries one sale request.       *)
(***************************************************************************)
SaleItems == [productId : 1..(MaxProducts + 1), qty : Qtys]

SaleBatches == SeqsUpTo(SaleItems, MaxItems)

SaleArrive(r) ==
    /\ reqs[r].pc = "idle"
    /\ \E items \in SaleBatches :
         reqs' = [reqs EXCEPT ![r] = Arrive("sale", "create", items, <<>>)]
    /\ UNCHANGED <<products, logs, invoices, billingPDFs, resp, estimates, inventory, sales, orders>>

\* Mutant of SaleNext: the event and the answer 201 come before the
\* updates of the inventory.
SaleNextAnswersFirst(q, k) == Done([q EXCEPT !.k = k], 201)

\* The request after the sale is stored or after the update of item k:
\* the next updateMany, or sale:created and the answer 201 after the last.
SaleNext(q, k) ==
    IF k > Len(q.arg) THEN Done([q EXCEPT !.k = k], 201)
    ELSE [q EXCEPT !.pc = "updateMany", !.k = k]

\* prisma.sale.create with its nested items: connect fails, and nothing is
\* stored, when an item names a product that does not exist; the catch
\* block answers 500.
SaleCreate(r) ==
    LET q == reqs[r]
        id == Len(sales.rows) + 1
        next == SaleNext([q EXCEPT !.pid = id], 1)
    IN /\ q.kind = "sale"
       /\ q.pc = "create"
       /\ IF \E i \in DOMAIN q.arg : q.arg[i].productId \notin ProductIds
          THEN /\ reqs' = [reqs EXCEPT ![r] = Done(q, 500)]
               /\ sales' = sales
          ELSE /\ reqs' = [reqs EXCEPT ![r] = next]
               /\ sales' = [rows |-> Append(sales.rows, [id |-> id, items |-> q.arg]),
                            emitted |-> IF next.pc = "done"
                                        THEN Append(sales.emitted, id)
                                        ELSE sales.emitted]
       /\ UNCHANGED <<products, logs, invoices, billingPDFs, resp, estimates, inventory, orders>>

\* Mutant of DecrementQuantity: every item takes one unit.
DecrementQuantityByOne(quantity, qty) == quantity - 1

\* data: { quantity: { decrement: item.qty } }, applied by the database to
\* the quantity the row holds when the update runs.
DecrementQuantity(quantity, qty) == quantity - qty

\* prisma.inventory.updateMany for item k: the rows where productId is the
\* item's product, at most one, none when the product has no Inventory row.
SaleUpdateMany(r) ==
    LET q == reqs[r]
        item == q.arg[q.k]
        next == SaleNext(q, q.k + 1)
    IN /\ q.kind = "sale"
       /\ q.pc = "updateMany"
       /\ inventory' = [p \in DOMAIN inventory |->
                          IF p = item.productId
                          THEN DecrementQuantity(inventory[p], item.qty)
                          ELSE inventory[p]]
       /\ \A p \in DOMAIN inventory : inventory'[p] \in Stocks
       /\ reqs' = [reqs EXCEPT ![r] = next]
       /\ sales' = [sales EXCEPT !.emitted = IF next.pc = "done"
                                             THEN Append(@, q.pid) ELSE @]
       /\ UNCHANGED <<products, logs, invoices, billingPDFs, resp, estimates, orders>>

\* A Product row as POST /products stores it, for the tables the sales
\* router starts from.
SeedProduct(id) ==
    [id |-> id, name |-> "n", sku |-> "A", style |-> "s", stock |-> 0,
     vendors |-> <<>>, images |-> <<>>, needToOrder |-> 0, billing |-> NULL,
     deletedAt |-> NULL, createdAt |-> id]

\* The sales router has no request that creates products or Inventory rows:
\* it starts from a database that holds MaxProducts products, some of them
\* with an Inventory row of quantity MaxStock.
InitSales ==
    /\ products = [id \in 1..MaxProducts |-> SeedProduct(id)]
    /\ inventory \in {[p \in S |-> MaxStock] : S \in SUBSET (1..MaxProducts)}
    /\ logs = <<>>
    /\ invoices = <<>>
    /\ billingPDFs = <<>>
    /\ resp = NoResp
    /\ reqs = [r \in Reqs |-> Idle]
    /\ estimates = [rows |-> <<>>, serial |-> 0]
    /\ sales = [rows |-> <<>>, emitted |-> <<>>]
    /\ orders = [rows |-> <<>>, serial |-> 0]

(***************************************************************************)
(* PUT /products/:id, database call by database call: findUnique reads    *)
(* the row into oldProduct, update writes the body's fields to the row as  *)
(* it then is and returns it, and the log row is written from the two.     *)
(* The write of the log row is taken together with the update.             *)
(***************************************************************************)
\* Bodies with a stock or with no field at all.
UpdateBodies ==
    {[name |-> <<>>, sku |-> <<>>, stock |-> stock, vendors |-> <<>>] :
        stock \in {Undef, Num(MaxStock)}}

UpdateArrive(r) ==
    /\ Free(r)
    /\ \E id \in PathIds, body \in UpdateBodies :
         reqs' = [reqs EXCEPT ![r] =
                    IF id.t = "nan"
                    THEN Done(Arrive("update", "findUnique", body, <<>>), 400)
                    ELSE [Arrive("update", "findUnique", body, <<>>) EXCEPT !.pid = id.n]]
    /\ UNCHANGED <<products, logs, invoices, billingPDFs, resp, estimates, inventory, sales, orders>>

UpdateFindUnique(r) ==
    LET q == reqs[r]
    IN /\ q.kind = "update"
       /\ q.pc = "findUnique"
       /\ reqs' = [reqs EXCEPT ![r] =
                    IF q.pid \notin ProductIds
                    THEN Done(q, 404)
                    ELSE [q EXCEPT !.pc = "update", !.before = products[q.pid]]]
       /\ UNCHANGED <<products, logs, invoices, billingPDFs, resp, estimates, inventory, sales, orders>>

UpdateWrite(r) ==
    LET q == reqs[r]
        oldProduct == q.before
        updatedProduct == UpdateData(products[q.pid], q.arg.name, q.arg.sku,
                                     q.arg.stock, q.arg.vendors)
        changes == ComputeChanges(oldProduct, updatedProduct)
    IN /\ q.kind = "update"
       /\ q.pc = "update"
       /\ Len(logs) < MaxRows
       /\ products' = [products EXCEPT ![q.pid] = updatedProduct]
       /\ \E logFails \in BOOLEAN :
            logs' = logProductChange(logs, q.pid, "UPDATE", changes, logFails).logs
       /\ reqs' = [reqs EXCEPT ![r] = Done(q, 200)]
       /\ UNCHANGED <<invoices, billingPDFs, resp, estimates, inventory, sales, orders>>

(***************************************************************************)
(* POST /invoices/:id/pay and POST /billing/:id/pay, database call by      *)
(* database call: findUnique reads the record, update writes the amounts   *)
(* computed from the record as it was read.                                *)
(***************************************************************************)
PayKinds == {"payInvoice", "payBilling"}

\* Payments of one cent and of MaxCents cents.
PayAmounts == {Num(SubCent), Num(MaxCents * SubCent)}

PayTable(kind) == IF kind = "payInvoice" THEN invoices ELSE billingPDFs

PayArrive(r) ==
    /\ Free(r)
    /\ \E kind \in PayKinds, amount \in PayAmounts :
         \E id \in 1..(Len(PayTable(kind)) + 1) :
           reqs' = [reqs EXCEPT ![r] =
                      IF InvalidAmount(amount)
                      THEN Done(Arrive(kind, "findUnique", amount, <<>>), 400)
                      ELSE [Arrive(kind, "findUnique", amount, <<>>) EXCEPT !.pid = id]]
    /\ UNCHANGED <<products, logs, invoices, billingPDFs, resp, estimates, inventory, sales, orders>>

PayFindUnique(r) ==
    LET q == reqs[r]
    IN /\ q.kind \in PayKinds
       /\ q.pc = "findUnique"
       /\ reqs' = [reqs EXCEPT ![r] =
                    IF q.pid \notin DOMAIN PayTable(q.kind)
                    THEN Done(q, 404)
                    ELSE [q EXCEPT !.pc = "update", !.before = PayTable(q.kind)[q.pid]]]
       /\ UNCHANGED <<products, logs, invoices, billingPDFs, resp, estimates, inventory, sales, orders>>

PayUpdate(r) ==
    LET q == reqs[r]
        invoice == q.before
    IN /\ q.kind \in PayKinds
       /\ q.pc = "update"
       /\ IF q.kind = "payInvoice"
          THEN LET newPaid == invoice.paidAmount + AmountValue(q.arg)
                   total == invoice.total
               IN /\ invoices' = [invoices EXCEPT
                        ![q.pid].paidAmount = RoundCents(InvoicePaidAmount(newPaid, total)),
                        ![q.pid].status = InvoiceStatus(newPaid, total)]
                  /\ billingPDFs' = billingPDFs
          ELSE LET totalCost == invoice.cost
                   newPaidAmount == BillingNewPaidAmount(invoice.amountPaid,
                                                         AmountValue(q.arg), totalCost)
               IN /\ billingPDFs' = [billingPDFs EXCEPT
                        ![q.pid].amountPaid = RoundCents(newPaidAmount),
                        ![q.pid].paidAt = IF newPaidAmount >= totalCost
                                          THEN "date" ELSE NULL]
                  /\ invoices' = invoices
       /\ reqs' = [reqs EXCEPT ![r] = Done(q, 200)]
       /\ UNCHANGED <<products, logs, resp, estimates, inventory, sales, orders>>

\* The tables after POST /invoices and POST /billing/save-pdf have each
\* stored a record of MaxCents cents.
InitPay ==
    /\ products = <<>>
    /\ logs = <<>>
    /\ invoices = <<[id |-> 1, invoiceNo |-> "INV-1", total |-> MaxCents * SubCent,
                     paidAmount |-> 0, status |-> "PENDING"]>>
    /\ billingPDFs = <<[id |-> 1, invoiceNo |-> "INV-1", cost |-> MaxCents * SubCent,
                        amountPaid |-> 0, paidAt |-> NULL]>>
    /\ resp = NoResp
    /\ reqs = [r \in Reqs |-> Idle]
    /\ estimates = [rows |-> <<>>, serial |-> 0]
    /\ inventory = <<>>
    /\ sales = [rows |-> <<>>, emitted |-> <<>>]
    /\ orders = [rows |-> <<>>, serial |-> 0]

(***************************************************************************)
(* The orders router and POST /billing-pdfs/save.  orders.rows maps the    *)
(* ids in use to Order rows and orders.serial is the last value of the     *)
(* id sequence.                                                            *)
(***************************************************************************)
OrderIds == DOMAIN orders.rows

\* POST /orders/create: one insert of a placeholder order under the next id
\* of the sequence, refused by the primary key when an order was stored
\* under that id by POST /billing-pdfs/save.
CreateOrder(r) ==
    LET id == orders.serial + 1
        q == [Arrive("createOrder", "create", <<>>, <<>>) EXCEPT !.pid = id]
    IN /\ Free(r)
       /\ id <= MaxRows
       /\ IF id \in OrderIds
          THEN /\ orders' = [orders EXCEPT !.serial = id]
               /\ reqs' = [reqs EXCEPT ![r] = Done(q, 500)]
          ELSE /\ orders' = [rows |-> [i \in OrderIds \cup {id} |->
                                        IF i = id THEN [id |-> id, name |-> "TEMP"]
                                        ELSE orders.rows[i]],
                             serial |-> id]
               /\ reqs' = [reqs EXCEPT ![r] = Done(q, 200)]
       /\ UNCHANGED <<products, logs, invoices, billingPDFs, resp, estimates, inventory, sales>>

\* DELETE /orders/cancel/:id, database call by database call.
CancelArrive(r) ==
    /\ Free(r)
    /\ \E id \in 1..MaxRows :
         reqs' = [reqs EXCEPT ![r] =
                    [Arrive("cancel", "findUnique", <<>>, <<>>) EXCEPT !.pid = id]]
    /\ UNCHANGED <<products, logs, invoices, billingPDFs, resp, estimates, inventory, sales, orders>>

CancelFindUnique(r) ==
    LET q == reqs[r]
    IN /\ q.kind = "cancel"
       /\ q.pc = "findUnique"
       /\ reqs' = [reqs EXCEPT ![r] =
                    IF q.pid \notin OrderIds THEN Done(q, 200)
                    ELSE [q EXCEPT !.pc = "delete"]]
       /\ UNCHANGED <<products, logs, invoices, billingPDFs, resp, estimates, inventory, sales, orders>>

\* prisma.order.delete throws when no row has the id; the catch block
\* answers 500.
CancelDelete(r) ==
    LET q == reqs[r]
    IN /\ q.kind = "cancel"
       /\ q.pc = "delete"
       /\ IF q.pid \notin OrderIds
          THEN /\ orders' = orders
               /\ reqs' = [reqs EXCEPT ![r] = Done(q, 500)]
          ELSE /\ orders' = [orders EXCEPT
                               !.rows = [i \in OrderIds \ {q.pid} |-> orders.rows[i]]]
               /\ reqs' = [reqs EXCEPT ![r] = Done(q, 200)]
       /\ UNCHANGED <<products, logs, invoices, billingPDFs, resp, estimates, inventory, sales>>

\* req.body of POST /billing-pdfs/save: orderId 0 stands for a missing
\* orderId.
SaveBodies == [orderId : 0..MaxRows, invoiceNo : InvoiceNos, pdfData : BOOLEAN]

\* POST /billing-pdfs/save.  The insert of the PDF passes no cost: it is
\* rejected where the column is required (as in the migrations) and stored
\* where it is not, so both outcomes are taken.
SavePdf ==
    \E body \in SaveBodies, rejected \in BOOLEAN :
        LET found == body.orderId \in OrderIds
            withOrder ==
                [orders EXCEPT !.rows =
                   [i \in OrderIds \cup {body.orderId} |->
                      IF i \in OrderIds THEN orders.rows[i]
                      ELSE [id |-> i, name |-> "Auto-generated order"]]]
            billingPdf == [id |-> Len(billingPDFs) + 1, orderId |-> body.orderId,
                           invoiceNo |-> body.invoiceNo, amountPaid |-> 0,
                           paidAt |-> NULL]
            answer(status, b) == [Response("savePdf", status, b) EXCEPT !.arg = body]
        IN IF body.orderId = 0
           THEN /\ resp' = answer(400, [error |-> <<"Missing orderId">>])
                /\ UNCHANGED <<reqs, estimates, inventory, sales, orders,
                               products, logs, invoices, billingPDFs>>
           ELSE /\ orders' = withOrder
                /\ IF ~body.pdfData
                   THEN /\ resp' = answer(400, [error |-> <<"Missing PDF data">>])
                        /\ billingPDFs' = billingPDFs
                   ELSE IF rejected
                   THEN /\ resp' = answer(500, [error |-> <<"Failed to save billing PDF">>])
                        /\ billingPDFs' = billingPDFs
                   ELSE IF UniqueViolation(BillingNumbers, body.invoiceNo)
                   THEN /\ resp' = answer(400, [error |-> <<"Invoice number already exists">>])
                        /\ billingPDFs' = billingPDFs
                   ELSE /\ Len(billingPDFs) < MaxRows
                        /\ resp' = answer(201, billingPdf)
                        /\ billingPDFs' = Append(billingPDFs, billingPdf)
                /\ UNCHANGED <<reqs, estimates, inventory, sales, products, logs, invoices>>

\* req.body.approved: a boolean, or absent.
BodyApproved == {<<TRUE>>, <<FALSE>>, <<>>}

\* prisma.estimate.update({ where: { id }, data }) on the row of that id:
\* data holds the columns to write (<<>>: the column is left as it is).
EstimateUpdate(r, kind, id, data) ==
    LET q == Arrive(kind, "update", [id |-> id, data |-> data], <<>>)
        found == \E i \in DOMAIN estimates.rows : estimates.rows[i].id = id
    IN /\ reqs' = [reqs EXCEPT ![r] = Done(q, IF found THEN 200 ELSE 0)]
       /\ estimates' = [estimates EXCEPT !.rows =
            [i \in DOMAIN @ |->
               IF @[i].id = id
               THEN [@[i] EXCEPT
                       !.approved = IF data.approved = <<>> THEN @ ELSE data.approved[1],
                       !.invoiced = IF data.invoiced = <<>> THEN @ ELSE data.invoiced[1]]
               ELSE @[i]]]

\* PATCH /estimates/:id/approve (part_006): data: { approved: req.body.approved }.
\* With no row of that id the call throws outside any try block and no
\* answer is sent (status 0).
EstimateApprove(r) ==
    /\ Free(r)
    /\ \E id \in 1..(MaxRows + 1), approved \in BodyApproved :
         EstimateUpdate(r, "approveEstimate", id,
                        [approved |-> approved, invoiced |-> <<>>])
    /\ UNCHANGED <<products, logs, invoices, billingPDFs, resp, inventory, sales, orders>>

\* PATCH /estimates/:id/invoiced (part_006): data: { approved: true, invoiced: true }.
EstimateInvoiced(r) ==
    /\ Free(r)
    /\ \E id \in 1..(MaxRows + 1) :
         EstimateUpdate(r, "invoicedEstimate", id,
                        [approved |-> <<TRUE>>, invoiced |-> <<TRUE>>])
    /\ UNCHANGED <<products, logs, invoices, billingPDFs, resp, inventory, sales, orders>>

NextProducts ==
    \/ CreateProduct
    \/ UpdateProduct
    \/ DeleteProduct
    \/ DecrementStock
    \/ IncrementStock
    \/ IncrementStockByStyleSku
    \/ PatchNeedToOrder
    \/ PatchBilling
    \/ ListProducts
    \/ ListNeedToOrder
    \/ ProductStock

NextPay ==
    \/ CreateInvoice
    \/ UpdateInvoice
    \/ PayInvoice
    \/ SaveBillingPDF
    \/ PayBilling

\* The products router with its change log.
Spec == Init /\ [][NextProducts]_vars

\* The invoice and billing routers.
SpecPay == Init /\ [][NextPay]_vars

\* The requests of a client that sends one stock batch at a time.
OneAtATime == {1}

NextBatch ==
    \/ CreateProduct
    \/ \E r \in OneAtATime : DecrementArrive(r, Batches)
    \/ \E r \in OneAtATime : DecrementFindFirst(r)
    \/ \E r \in OneAtATime : DecrementUpdate(r)
    \/ \E r \in OneAtATime : IncrementArrive(r, Batches)
    \/ \E r \in OneAtATime : IncrementFindFirst(r)
    \/ \E r \in OneAtATime : IncrementUpdate(r)

\* Stock batches sent one after the other, each run call by call.
SpecBatch == Init /\ [][NextBatch]_vars

\* Bodies with a single item.
SingleItemBatches == SeqsUpTo(Items, 1)

NextRace ==
    \/ CreateProduct
    \/ \E r \in Reqs : DecrementArrive(r, SingleItemBatches)
    \/ \E r \in Reqs : DecrementFindFirst(r)
    \/ \E r \in Reqs : DecrementUpdate(r)

\* Concurrent decrement-stock requests, interleaved call by call.
SpecRace == Init /\ [][NextRace]_vars

\* The totals and costs of the create requests that are interleaved.
CreateTotals == {Undef, Num(SubCent)}

NextCreate ==
    \/ \E r \in Reqs : InvoiceArrive(r, CreateTotals)
    \/ \E r \in Reqs : InvoiceFindUnique(r)
    \/ \E r \in Reqs : InvoiceCreate(r)
    \/ \E r \in Reqs : BillingSave(r, CreateTotals)
    \/ \E r \in Reqs : EstimateArrive(r)
    \/ \E r \in Reqs : EstimateFindFirst(r)
    \/ \E r \in Reqs : EstimateCreate(r)

\* Concurrent create requests for invoices, billing PDFs and estimates,
\* interleaved call by call.
SpecCreate == Init /\ [][NextCreate]_vars

NextEstimates ==
    \/ \E r \in OneAtATime : EstimateArrive(r)
    \/ \E r \in OneAtATime : EstimateFindFirst(r)
    \/ \E r \in OneAtATime : EstimateCreate(r)
    \/ \E r \in OneAtATime : EstimateDelete(r)
    \/ \E r \in OneAtATime : EstimateApprove(r)
    \/ \E r \in OneAtATime : EstimateInvoiced(r)

\* Estimate saves and deletes sent one after the other.
SpecEstimates == Init /\ [][NextEstimates]_vars

UpdateSlot == {1}
StockSlot == {2}

\* Batches of one item that takes MaxQty units.
UnitBatches == {<<[sku |-> sku, qty |-> MaxQty]>> : sku \in Skus}

NextUpdate ==
    \/ CreateProduct
    \/ ListLogs
    \/ \E r \in UpdateSlot : UpdateArrive(r)
    \/ \E r \in UpdateSlot : UpdateFindUnique(r)
    \/ \E r \in UpdateSlot : UpdateWrite(r)
    \/ \E r \in StockSlot : DecrementArrive(r, UnitBatches)
    \/ \E r \in StockSlot : DecrementFindFirst(r)
    \/ \E r \in StockSlot : DecrementUpdate(r)

\* One client that updates products and reads the log, another that sends
\* stock decrements, their database calls interleaved.
SpecUpdate == Init /\ [][NextUpdate]_vars

NextPayRace ==
    \/ \E r \in Reqs : PayArrive(r)
    \/ \E r \in Reqs : PayFindUnique(r)
    \/ \E r \in Reqs : PayUpdate(r)

\* Concurrent pay requests on a stored invoice and a stored billing PDF.
SpecPayRace == InitPay /\ [][NextPayRace]_vars

NextOrders ==
    \/ \E r \in Reqs : CreateOrder(r)
    \/ \E r \in Reqs : CancelArrive(r)
    \/ \E r \in Reqs : CancelFindUnique(r)
    \/ \E r \in Reqs : CancelDelete(r)

\* Orders created and cancelled by concurrent requests.
SpecOrders == Init /\ [][NextOrders]_vars

NextBillingPdfs ==
    \/ \E r \in OneAtATime : CreateOrder(r)
    \/ SavePdf

\* Orders created, and billing PDFs saved for orders that exist or not.
SpecBillingPdfs == Init /\ [][NextBillingPdfs]_vars

NextSales ==
    \/ \E r \in Reqs : SaleArrive(r)
    \/ \E r \in Reqs : SaleCreate(r)
    \/ \E r \in Reqs : SaleUpdateMany(r)

\* Concurrent sale requests, interleaved call by call.
SpecSales == InitSales /\ [][NextSales]_vars

(***************************************************************************)
(* Properties of the products router (checked under Spec).                 *)
(***************************************************************************)

\* C1: in every reachable state every product's stock is >= 0, whatever
\* the bodies of the create, update and stock-batch requests were.
C1_StockNeverNegative ==
    \A id \in ProductIds : products[id].stock >= 0

ShortageHit == resp.op = "decrement" /\ resp.pid # 0

\* C4 as stated: when a decrement-stock batch meets an item whose quantity
\* exceeds its product's stock, the answer is 400 and that product's stock
\* after the request is its stock before the request.
C4_ShortageLeavesStockAsBeforeRequest ==
    ShortageHit =>
        /\ resp.status = 400
        /\ products[resp.pid].stock = resp.before

\* C4 as amended: when a decrement-stock batch reaches an item whose
\* quantity exceeds the stock read for its product, the answer is 400 and
\* the product keeps the stock read for that item, that is, its stock
\* before the request less what earlier items of the batch took from it.
C4_ShortageLeavesStockAsRead ==
    ShortageHit =>
        /\ resp.status = 400
        /\ resp.seen < resp.qty
        /\ products[resp.pid].stock = resp.seen

C4_Witness ==
    /\ ShortageHit
    /\ resp.status = 400
    /\ resp.seen < resp.before

LoggedOps == {"create", "update", "delete"}
UnloggedOps == {"decrement", "increment", "incrementByStyleSku", "needToOrder", "billing"}

LogAction(op) ==
    IF op = "create" THEN "CREATE OR DUPLICATE"
    ELSE IF op = "update" THEN "UPDATE" ELSE "DELETE"

C9_DiffHoldsExactlyChangedFields ==
    [][(resp'.op = "update" /\ resp'.status = 200 /\ ~resp'.logFailed)
         => DOMAIN logs'[Len(logs')].changes =
              {k \in ProductKeys : products'[resp'.pid][k] # products[resp'.pid][k]}]_vars

\* C10: when the change-log write fails, the product create, update or
\* delete still answers with its success response and its change to the
\* product is stored.
C10_LogFailureAbsorbed ==
    resp.logFailed =>
        /\ resp.status = 200
        /\ resp.pid \in ProductIds
        /\ resp.op \in {"create", "update"} => products[resp.pid] = resp.body
        /\ resp.op = "delete" => products[resp.pid].deletedAt # NULL

C10_Witness ==
    /\ resp.logFailed
    /\ resp.op = "update"
    /\ resp.status = 200
    /\ logs = <<>>
    /\ products[resp.pid].stock = 1

(***************************************************************************)
(* Properties of the invoice and billing routers (checked under SpecPay).  *)
(***************************************************************************)

\* C2: in every reachable state no invoice has paidAmount above total and
\* no billing PDF has amountPaid above cost.
C2_PaidNeverAboveTotal ==
    /\ \A i \in DOMAIN invoices : invoices[i].paidAmount <= invoices[i].total
    /\ \A i \in DOMAIN billingPDFs : billingPDFs[i].amountPaid <= billingPDFs[i].cost

StatusFor(paidAmount, total) ==
    IF paidAmount = total THEN "PAID"
    ELSE IF 0 < paidAmount /\ paidAmount < total THEN "PARTIALLY_PAID"
    ELSE "PENDING"

InvoicePaid == resp.op = "payInvoice" /\ resp.status = 200
BillingPaid == resp.op = "payBilling" /\ resp.status = 200

\* C3: after an accepted invoice payment the stored status is PAID when
\* the stored paidAmount equals total, PARTIALLY_PAID when it lies strictly
\* between 0 and total, and PENDING otherwise.
C3_StatusMatchesStoredAmounts ==
    InvoicePaid =>
        invoices[resp.pid].status =
            StatusFor(invoices[resp.pid].paidAmount, invoices[resp.pid].total)

\* C6: after an accepted payment the stored paid amount is
\* min(paid before + amount, total); so when paid before + amount reaches
\* the total, the stored paid amount is the total and an invoice is PAID.
C6_PaidIsMinOfSumAndTotal ==
    /\ InvoicePaid =>
         LET inv == invoices[resp.pid]
         IN /\ inv.paidAmount = Min(resp.before + resp.qty, inv.total)
            /\ resp.before + resp.qty >= inv.total =>
                 (inv.paidAmount = inv.total /\ inv.status = "PAID")
    /\ BillingPaid =>
         LET pdf == billingPDFs[resp.pid]
         IN /\ pdf.amountPaid = Min(resp.before + resp.qty, pdf.cost)
            /\ resp.before + resp.qty >= pdf.cost => pdf.amountPaid = pdf.cost

\* A pay request with a valid amount has reached a record that was fully
\* paid when the handler read it.
PaidFullyPaidInvoice ==
    /\ resp.op = "payInvoice" /\ resp.qty > 0 /\ resp.pid # 0
    /\ resp.before = invoices[resp.pid].total
PaidFullyPaidBilling ==
    /\ resp.op = "payBilling" /\ resp.qty > 0 /\ resp.pid # 0
    /\ resp.before = billingPDFs[resp.pid].cost

RECURSIVE PrefixQty(_, _, _)
\* The quantities of the first n items that name sku, added up.
PrefixQty(items, n, sku) ==
    IF n = 0 THEN 0
    ELSE PrefixQty(items, n - 1, sku) + (IF items[n].sku = sku THEN items[n].qty ELSE 0)

RECURSIVE SkuStock(_, _, _)
\* The stock of the first n rows that carry sku, added up.
SkuStock(ps, n, sku) ==
    IF n = 0 THEN 0
    ELSE SkuStock(ps, n - 1, sku) + (IF ps[n].sku = sku THEN ps[n].stock ELSE 0)

BatchFailed(r) ==
    /\ reqs[r].kind \in {"decrement", "increment"}
    /\ reqs[r].pc = "done"
    /\ reqs[r].status \in {400, 404}
    /\ reqs[r].arg # <<>>

\* C11: when item k of a decrement-stock or increment-stock batch fails
\* (no product with its sku, or a shortage), the answer is 404 or 400 and
\* the stock of the products is what it was when the batch arrived with
\* the quantities of items 1..k-1, and of no other item, taken from it
\* (decrement) or added to it (increment): nothing is rolled back.
C11_EarlierItemsStayApplied ==
    \A r \in OneAtATime :
        (BatchFailed(r) /\ Len(reqs[r].before) = Len(products)) =>
            LET q == reqs[r]
                sign == IF q.kind = "decrement" THEN 0 - 1 ELSE 1
            IN \A sku \in Skus :
                 SkuStock(products, Len(products), sku) =
                     SkuStock(q.before, Len(q.before), sku)
                       + sign * PrefixQty(q.arg, q.k - 1, sku)

C11_Witness ==
    \E r \in OneAtATime :
        /\ BatchFailed(r)
        /\ reqs[r].kind = "decrement"
        /\ reqs[r].status = 400
        /\ reqs[r].k = 2
        /\ Len(reqs[r].before) = 1
        /\ products[1].stock = reqs[r].before[1].stock - 1

\* C12: a decrement-stock request writes the stock it read less its
\* quantity, whatever the stock has become since the read; so two requests
\* on one product that both read before either writes both answer 200 while
\* the stock is lowered by only one of the two quantities (C12_Witness).
C12_WritesStockReadLessQty ==
    [][\A r \in Reqs :
         (reqs[r].kind = "decrement" /\ reqs[r].pc = "update" /\ reqs'[r] # reqs[r])
            => /\ products'[reqs[r].pid].stock =
                    reqs[r].read - reqs[r].arg[reqs[r].k].qty
               /\ reqs'[r].status = 200]_vars

C12_Witness ==
    /\ \A r \in {1, 2} :
         /\ reqs[r].kind = "decrement"
         /\ reqs[r].pc = "done"
         /\ reqs[r].status = 200
         /\ reqs[r].arg[1].qty = 1
         /\ reqs[r].read = 1
    /\ reqs[1].pid = reqs[2].pid
    /\ products[reqs[1].pid].stock = 0

(***************************************************************************)
(* Further properties of the invoice and billing routers (SpecPay).        *)
(***************************************************************************)
PayOps == {"payInvoice", "payBilling"}

PositiveFinite(amount) == amount.t = "num" /\ amount.n > 0

\* C13: a pay request on either endpoint whose amount is not a positive
\* finite number (zero, negative, not a number, infinite) is answered 400,
\* and it changes no invoice and no billing PDF.
C13_InvalidAmountRejected ==
    [][(resp'.op \in PayOps /\ resp' # resp /\ ~PositiveFinite(resp'.arg))
          => /\ resp'.status = 400
             /\ invoices' = invoices
             /\ billingPDFs' = billingPDFs]_vars

\* C14: in every reachable state every invoice's status agrees with its
\* paid amount and total (PAID iff paidAmount = total, PARTIALLY_PAID iff
\* 0 < paidAmount < total, PENDING otherwise), whatever invoice create,
\* update and pay requests came before.
C14_StatusAgreesInEveryState ==
    \A i \in DOMAIN invoices :
        invoices[i].status = StatusFor(invoices[i].paidAmount, invoices[i].total)

(***************************************************************************)
(* Further properties of the products router (Spec).                       *)
(***************************************************************************)
Deleted == {id \in ProductIds : products[id].deletedAt # NULL}

\* C15: after a successful DELETE /products/:id the row is still in the
\* table, with its deletion timestamp set; a row with a deletion timestamp
\* is in no answer of GET /products or GET /products/needToOrder, and it is
\* in the answer of every POST /products/stock that asks for its id.
C15_SoftDeletedHiddenButKept ==
    /\ (resp.op = "delete" /\ resp.status = 200) => resp.pid \in Deleted
    /\ resp.op \in {"list", "listNeedToOrder"} =>
         \A row \in resp.body : row.id \notin Deleted
    /\ (resp.op = "stock" /\ resp.status = 200) =>
         \A id \in Deleted \cap resp.arg.ids : \E row \in resp.body : row.id = id

C15_Witness ==
    /\ resp.op = "list"
    /\ Deleted # {}
    /\ \E id \in Deleted : products[id].sku = "A" /\ products[id].needToOrder > 0
    /\ resp.body = {}

(***************************************************************************)
(* Properties of the create requests (SpecCreate, interleaved) and of the  *)
(* estimate numbers (SpecEstimates, one request at a time).                *)
(***************************************************************************)
\* C16: in every reachable state no two invoices share an invoiceNo, no two
\* billing PDFs share an invoiceNo and no two estimates share an
\* estimateNo, under every interleaving of the create requests.
C16_NumbersUnique ==
    /\ \A i, j \in DOMAIN invoices :
         invoices[i].invoiceNo = invoices[j].invoiceNo => i = j
    /\ \A i, j \in DOMAIN billingPDFs :
         billingPDFs[i].invoiceNo = billingPDFs[j].invoiceNo => i = j
    /\ \A i, j \in DOMAIN estimates.rows :
         estimates.rows[i].estimateNo = estimates.rows[j].estimateNo => i = j

\* Two concurrent POST /invoices with one number both passed findUnique;
\* the first insert is stored and the second is refused by the index, while
\* the table holds a second invoice with another number.
C16_Witness ==
    /\ reqs[1].kind = "createInvoice" /\ reqs[2].kind = "createInvoice"
    /\ reqs[1].arg.no = reqs[2].arg.no
    /\ reqs[1].status = 200 /\ reqs[2].status = 500
    /\ reqs[2].arg.total.t = "num"
    /\ Len(invoices) = 2

\* The number of a create request that has reached its insert.
NumberOf(q) == IF q.kind = "saveEstimate" THEN q.read ELSE q.arg.no

Inserting(q) ==
    /\ q.kind \in {"createInvoice", "saveBillingPDF", "saveEstimate"}
    /\ q.kind # "saveBillingPDF" => q.pc = "create"
    /\ q.kind # "saveEstimate" => q.arg.total.t = "num"

\* C17: a create request for an invoice, billing PDF or estimate (with an
\* otherwise valid body) whose number is stored when its insert is made is
\* answered 409 or 400, never 500, and stores nothing, under every
\* interleaving of the create requests.
C17_DuplicateAnsweredConflict ==
    [][\A r \in Reqs :
         LET q == IF reqs'[r].kind = "saveBillingPDF" THEN reqs'[r] ELSE reqs[r]
         IN (/\ reqs'[r] # reqs[r]
             /\ reqs'[r].pc = "done"
             /\ Inserting(q)
             /\ NumberOf(q) \in (IF q.kind = "createInvoice" THEN InvoiceNumbers
                                 ELSE IF q.kind = "saveBillingPDF" THEN BillingNumbers
                                 ELSE EstimateNumbers))
              => /\ reqs'[r].status \in {400, 409}
                 /\ invoices' = invoices
                 /\ billingPDFs' = billingPDFs
                 /\ estimates' = estimates]_vars

\* C18: an estimate save without estimateNo, sent when no other request is
\* in flight, succeeds and stores a new estimate whose number no stored
\* estimate held: one more than the number of the estimate with the highest
\* id, or EST-1001 when the table is empty or that number does not start
\* with EST-.
C18_GeneratedNumberIsFresh ==
    [][\A r \in OneAtATime :
         (/\ reqs[r].kind = "saveEstimate"
          /\ reqs[r].pc = "create"
          /\ reqs[r].arg.no = NoEstimateNo
          /\ reqs'[r].pc = "done")
           => /\ reqs'[r].status = 200
              /\ reqs[r].read = NextEstimateNo(estimates.rows)
              /\ reqs[r].read \notin EstimateNumbers
              /\ Len(estimates'.rows) = Len(estimates.rows) + 1
              /\ estimates'.rows[Len(estimates'.rows)].estimateNo = reqs[r].read]_vars

(***************************************************************************)
(* Properties of the sales router (SpecSales).                             *)
(***************************************************************************)
\* The items of sale row s whose updateMany has run: those before item k
\* while the request of the sale is in flight, all of them afterwards.
Applied(s) ==
    IF \E r \in Reqs : reqs[r].pc = "updateMany" /\ reqs[r].pid = s.id
    THEN reqs[CHOOSE r \in Reqs : reqs[r].pc = "updateMany" /\ reqs[r].pid = s.id].k - 1
    ELSE Len(s.items)

RECURSIVE ProductQty(_, _, _)
\* The quantities of the first n items that name product p, added up.
ProductQty(items, n, p) ==
    IF n = 0 THEN 0
    ELSE ProductQty(items, n - 1, p) + (IF items[n].productId = p THEN items[n].qty ELSE 0)

RECURSIVE SoldQty(_, _)
\* What the first n sales have taken from product p so far.
SoldQty(n, p) ==
    IF n = 0 THEN 0
    ELSE SoldQty(n - 1, p) + ProductQty(sales.rows[n].items, Applied(sales.rows[n]), p)

\* C19: a sale request answered 201 has its sale stored and all its items
\* applied, and in every reachable state the quantity of every Inventory
\* row is its first quantity less the quantities of all the items applied
\* so far that name its product: under every interleaving of the sale
\* requests no decrement is lost.
C19_EveryDecrementCounts ==
    /\ \A r \in Reqs :
         (reqs[r].kind = "sale" /\ reqs[r].status = 201) =>
            /\ reqs[r].pid \in DOMAIN sales.rows
            /\ sales.rows[reqs[r].pid].items = reqs[r].arg
            /\ Applied(sales.rows[reqs[r].pid]) = Len(reqs[r].arg)
    /\ \A p \in DOMAIN inventory :
         inventory[p] = MaxStock - SoldQty(Len(sales.rows), p)

\* Two sales of one product answered 201 whose updates were interleaved.
C19_Witness ==
    /\ \A r \in {1, 2} :
         /\ reqs[r].status = 201
         /\ Len(reqs[r].arg) = 2
         /\ reqs[r].arg[1].productId = 1
    /\ reqs[1].arg[1].qty = 1 /\ reqs[1].arg[2] = [productId |-> 1, qty |-> 0 - 1]
    /\ reqs[2].arg[1].qty = 1 /\ reqs[2].arg[2] = [productId |-> 1, qty |-> 1]
    /\ 1 \in DOMAIN inventory
    /\ inventory[1] = MaxStock - 2

\* C20: in every reachable state the quantity of every Inventory row is
\* >= 0, whatever sales were created.
C20_QuantityNeverNegative ==
    \A p \in DOMAIN inventory : inventory[p] >= 0

(***************************************************************************)
(* The change log as a table (SpecUpdate).                                     *)
(***************************************************************************)
\* C21: every step keeps the change-log rows it finds, in their places and
\* unchanged (rows are only added at the end), and a step that answers
\* GET /product-change-logs changes no table.
C21_LogsAppendOnly ==
    [][/\ Len(logs') >= Len(logs)
       /\ SubSeq(logs', 1, Len(logs)) = logs
       /\ (resp' # resp /\ resp'.op = "listLogs") =>
              UNCHANGED <<products, logs, invoices, billingPDFs, estimates, inventory, sales, orders>>]_vars

\* The log was listed with two rows in it, the newer one first.
C21_Witness ==
    /\ resp.op = "listLogs"
    /\ Len(logs) = 2
    /\ resp.body = <<logs[2], logs[1]>>

\* The UPDATE row a step writes, if it writes one.
WrittenUpdate == logs'[Len(logs')]

\* C23: when a step writes an UPDATE row, every field of its diff has as
\* old the value the field held in the step's first state and as new the
\* value it holds in the step's second state, whatever ran between the
\* findUnique and the update of the request.
C23_DiffIsTheWrittenDelta ==
    [][(Len(logs') > Len(logs) /\ WrittenUpdate.action = "UPDATE") =>
          \A k \in DOMAIN WrittenUpdate.changes :
             /\ WrittenUpdate.changes[k].old = products[WrittenUpdate.productId][k]
             /\ WrittenUpdate.changes[k].new = products'[WrittenUpdate.productId][k]]_vars

\* The sale requests answered with status.
Answered(status) == {r \in Reqs : reqs[r].kind = "sale" /\ reqs[r].status = status}

\* C22: in every reachable state each sale request answered 201 has exactly
\* one sale:created event, every event is that of a stored sale whose
\* request has run the update of every item and is answered 201, and the
\* requests answered 500 have no event: there are as many events as
\* requests answered 201.
C22_EventOncePerStoredSale ==
    /\ \A r \in Answered(201) :
         Cardinality({i \in DOMAIN sales.emitted : sales.emitted[i] = reqs[r].pid}) = 1
    /\ \A i \in DOMAIN sales.emitted :
         /\ sales.emitted[i] \in DOMAIN sales.rows
         /\ \E r \in Answered(201) :
              /\ reqs[r].pid = sales.emitted[i]
              /\ reqs[r].k = Len(reqs[r].arg) + 1
    /\ Len(sales.emitted) = Cardinality(Answered(201))

\* A sale of two items answered 201 with its event, next to a sale
\* answered 500.
C22_Witness ==
    /\ Answered(201) # {}
    /\ Answered(500) # {}
    /\ \A r \in Answered(201) : Len(reqs[r].arg) = 2 /\ sales.emitted = <<reqs[r].pid>>

(***************************************************************************)
(* Concurrent payments (SpecPayRace) and paidAt (SpecPay).                 *)
(***************************************************************************)
\* C24: in every reachable state, whatever the interleaving of the pay
\* requests, the paid amount of every invoice and of every billing PDF is
\* at most its total.
C24_PaidAtMostTotalUnderRace ==
    /\ \A i \in DOMAIN invoices : invoices[i].paidAmount <= invoices[i].total
    /\ \A i \in DOMAIN billingPDFs : billingPDFs[i].amountPaid <= billingPDFs[i].cost

\* Two pay requests on the invoice had both read it before either wrote,
\* their amounts sum to more than the total, and both have written.
C24_Witness ==
    /\ \A r \in Reqs :
         /\ reqs[r].kind = "payInvoice"
         /\ reqs[r].status = 200
         /\ reqs[r].before.paidAmount = 0
         /\ reqs[r].arg = Num(MaxCents * SubCent)
    /\ invoices[1].paidAmount = invoices[1].total

\* C25: no step lowers the paid amount of an invoice or of a billing PDF,
\* and a PAID invoice stays PAID.
C25_PaidNeverDecreases ==
    [][/\ \A i \in DOMAIN invoices :
            /\ invoices'[i].paidAmount >= invoices[i].paidAmount
            /\ invoices[i].status = "PAID" => invoices'[i].status = "PAID"
       /\ \A i \in DOMAIN billingPDFs :
            billingPDFs'[i].amountPaid >= billingPDFs[i].amountPaid]_vars

\* C27: after a billing payment answered 200, paidAt is set exactly when
\* the stored amountPaid equals cost.
C27_PaidAtIffPaidInFull ==
    (resp.op = "payBilling" /\ resp.status = 200) =>
       ((billingPDFs[resp.pid].paidAt # NULL) <=>
          (billingPDFs[resp.pid].amountPaid = billingPDFs[resp.pid].cost))

(***************************************************************************)
(* Concurrent stock decrements (SpecRace).                                 *)
(***************************************************************************)
\* C26: whatever the interleaving, the update of a decrement-stock request
\* stores a stock >= 0 (the stock it read less a quantity that passed the
\* shortage test), also when it overwrites the decrement of another
\* request.
C26_DecrementStoresNoNegativeStock ==
    [][\A r \in Reqs :
         (reqs[r].kind = "decrement" /\ reqs[r].pc = "update" /\ reqs'[r] # reqs[r]) =>
            products'[reqs[r].pid].stock >= 0]_vars

\* Two requests took one unit each from a stock both had read as MaxStock:
\* one decrement is lost and the stock is MaxStock - 1.
C26_Witness ==
    /\ \A r \in Reqs :
         /\ reqs[r].kind = "decrement"
         /\ reqs[r].status = 200
         /\ reqs[r].read = MaxStock
         /\ reqs[r].arg[1].qty = 1
         /\ reqs[r].pid = 1
    /\ products[1].stock = MaxStock - 1
    /\ products[1].stock >= 0

(***************************************************************************)
(* Orders (SpecOrders) and the PDFs saved for them (SpecBillingPdfs).      *)
(***************************************************************************)
\* C28: a step that answers POST /billing-pdfs/save with 400 changes
\* neither the billing PDFs nor the orders.
C28_RefusedSaveChangesNothing ==
    [][(resp' # resp /\ resp'.op = "savePdf" /\ resp'.status = 400) =>
          UNCHANGED <<billingPDFs, orders>>]_vars

\* C30: every cancel request is answered 200 and, when it is answered, no
\* order has its id, also when two cancel requests of one order are
\* interleaved.
C30_CancelAnswers200 ==
    [][\A r \in Reqs :
         (reqs'[r].kind = "cancel" /\ reqs'[r].pc = "done" /\ reqs[r].pc # "done") =>
            /\ reqs'[r].status = 200
            /\ reqs'[r].pid \notin DOMAIN orders'.rows]_vars

(***************************************************************************)
(* Approval of estimates (SpecEstimates).                                  *)
(***************************************************************************)
\* C29: in every reachable state every estimate marked invoiced is marked
\* approved.
C29_InvoicedImpliesApproved ==
    \A i \in DOMAIN estimates.rows :
       estimates.rows[i].invoiced => estimates.rows[i].approved

====
